---- MODULE Spec2Model ----
(***************************************************************************)
(* State-machine model of NodeLauncherBase                                 *)
(* (src/targets/node/nodeLauncherBase.ts): launch / restart / terminate /  *)
(* dispose, the session server's accept-and-handshake loop, and the tree   *)
(* of live targets with its opener-chain resolution.                       *)
(*                                                                         *)
(* Every action is one synchronous run of a handler between two            *)
(* suspension points (await) of the source.                                *)
(***************************************************************************)
EXTENDS Integers, Sequences, FiniteSets, TLC

VARIABLES
    run,                \* this.run: the stored RunData, NoRun when undefined
    program,            \* this.program: process handle, NONE when undefined
    serverConnections,  \* this.serverConnections
    targets,            \* this.targets: live map, target id -> Target record
    seenOpeners,        \* this.seenOpeners: target id -> declared opener id
    terminated,         \* results fired on onTerminatedEmitter, in order
    srv,                \* per net.Server: "unused" | "binding" | "listening" | "closed" | "failed"
    lau,                \* per launch() call (keyed by the server it binds): pc and params
    proc,               \* per launchProgram() invocation / spawned process
    rst,                \* per restart() call: pc, awaited process, awaited connections
    conn,               \* per accepted socket: handshake progress and announced ids
    workers,            \* per (connection, worker session): "none" | "attached" |
                        \* "orphaned" (disposed of by the parent's disconnect, transport
                        \* not yet ended) | "ended"
    bootloaderFile,     \* this.bootloaderFile: the memoized slot, NONE when it holds no
                        \* value, else the launchProgram() invocation whose request ran
                        \* getBootloaderFile
    disposedFiles,      \* the getBootloaderFile results whose dispose() _stopServer has
                        \* scheduled, named by the invocation whose request computed them
    hung,               \* TRUE once a synchronous loop of the launcher never returns
    launchRet,          \* the ILaunchResult a launch() call returned in the step just taken
    capTable,           \* NodeBinary: the table capability -> minimum version
    binary,             \* the NodeBinary under query: its version, Unknown when imprecise
    answer,             \* the last capability query and what has() returned
    envIn,              \* resolveEnvironment: bootloader path and the two NODE_OPTIONS read
    envOut,             \* resolveEnvironment: NODE_OPTIONS of the environment returned
    bootIn,             \* getBootloaderFile: installed path, os.tmpdir(), cwd, binary
    bootOut,            \* getBootloaderFile: the object returned, once it was called
    bootFs,             \* getBootloaderFile: the files written and not unlinked
    tel,                \* gatherTelemetryFromCdp: position in the loop, the loop counter
                        \* and what the call has done so far
    lastTerm            \* the latest terminate() call: the process whose stop it awaits
                        \* (while no other operation of the launcher intervenes), and whether
                        \* the step just taken completed it

launcherVars == << run, program, serverConnections, targets, seenOpeners, terminated,
                   srv, lau, proc, rst, conn, workers, bootloaderFile, disposedFiles, hung,
                   launchRet, lastTerm >>

\* State of the pure computations, which no launcher operation writes
capVars == << capTable, binary, answer >>
envVars == << envIn, envOut >>
bootVars == << bootIn, bootOut, bootFs >>
pureVars == << capVars, envVars, bootVars, tel >>

vars == << launcherVars, pureVars >>

-----------------------------------------------------------------------------
(* Bounds of the model *)

MaxServers  == 2    \* net.Server instances (= launch() calls that pass resolveParams)
MaxProcs    == 2    \* launchProgram() invocations
MaxRestarts == 1    \* restart() calls
MaxConns    == 3    \* sockets accepted by the session servers
MaxTid      == 3    \* distinct target ids a runtime may announce
MaxLifeConns == 1   \* sockets accepted under the lifecycle specification
MaxLifeTid  == 1    \* target ids announced under the lifecycle specification
MaxWaitConns == 2   \* sockets accepted under the restart specification
MaxWorkers  == 1    \* worker sessions per parent target
MaxFired    == 2    \* termination notifications recorded

NONE == 0           \* JavaScript undefined for an id-valued field

ServerIds  == 1 .. MaxServers
ProcIds    == 1 .. MaxProcs + 1      \* the last one for overlapping restarts only
RestartIds == 1 .. MaxRestarts + 1   \* the last one for overlapping restarts only
ConnIds    == 1 .. MaxConns
Tids       == 1 .. MaxTid
WorkerSess == 1 .. MaxWorkers

\* Launch configurations handed to launch()/restart(): 1 and 2 resolve for this
\* launcher, 3 is a configuration of another launcher type.
OtherParams == 3
Params      == 1 .. OtherParams

NoRun == [server |-> NONE, params |-> NONE]

\* Results of launch(): lines 158 and 178; NoReturn when no call returned.
NoReturn == [returned |-> FALSE, blockSessionTermination |-> FALSE]
NotMine == [returned |-> TRUE, blockSessionTermination |-> FALSE]
Launched == [returned |-> TRUE, blockSessionTermination |-> TRUE]

\* Mutant of resolveParams: every configuration is taken as this launcher's.
resolveParams_any(p) == p

\* abstract resolveParams(params): T | undefined
resolveParams(p) == IF p = OtherParams THEN NONE ELSE p

\* params.timeout: configuration 1 sets none (0), configuration 2 a positive one.
TimeoutOf(p) == IF p = 2 THEN 1 ELSE 0

\* Cancellation tokens handed to launchProgram: the one of the context given
\* to launch(), or one made by restart(), with the timeout it is scoped to
\* (NONE for NeverCancelled).
NoToken == [by |-> "none", ms |-> NONE]
LaunchToken == [by |-> "launch", ms |-> NONE]

\* `${parent.id()}-${evt.sessionId}`: a worker target id is the pair (parent id,
\* worker session id), encoded as one number outside the range of announced ids.
WorkerTid(t, w) == t * (MaxWorkers + 1) * (MaxTid + 1) + w

AllTids == Tids \cup { WorkerTid(t, w) : t \in Tids, w \in WorkerSess }

ExitCodes == {1}

-----------------------------------------------------------------------------
(* NodeBinary: version and capabilities *)

MaxMajor == 13      \* highest major version of a runtime

\* Semantic versions major.minor.patch; 10.0.0 is the lowest of the matrix.
Majors  == 10 .. MaxMajor
Minors  == {0, 6, 8}
Patches == {0, 1}
Versions == [major : Majors, minor : Minors, patch : Patches]

Semver(a, b, c) == [major |-> a, minor |-> b, patch |-> c]

\* Semver.lt / Semver.gte: comparison by major, then minor, then patch
Lt(v, w) ==
    \/ v.major < w.major
    \/ v.major = w.major /\ v.minor < w.minor
    \/ v.major = w.major /\ v.minor = w.minor /\ v.patch < w.patch

Gte(v, w) == ~Lt(v, w)

\* `new NodeBinary(path, undefined)`: the version is not precisely known
Unknown == [major |-> NONE, minor |-> NONE, patch |-> NONE]

Capabilities == {"UseSpacesInRequirePath", "UseInspectPublishUid"}

\* The capability matrix: version |-> capability |-> expected answer
Matrix ==
    << [v |-> Semver(10, 0, 0), c |-> [UseInspectPublishUid |-> FALSE,
                                        UseSpacesInRequirePath |-> FALSE]],
       [v |-> Semver(12, 0, 0), c |-> [UseInspectPublishUid |-> FALSE,
                                        UseSpacesInRequirePath |-> TRUE]],
       [v |-> Semver(12, 8, 0), c |-> [UseInspectPublishUid |-> TRUE,
                                        UseSpacesInRequirePath |-> TRUE]] >>

\* The tables capability -> minimum version that agree with the matrix
CapTables ==
    { t \in [Capabilities -> Versions] :
        \A i \in 1 .. Len(Matrix), cap \in Capabilities :
            Gte(Matrix[i].v, t[cap]) = Matrix[i].c[cap] }

\* The second argument of has(): "true", "false", or left out
Omitted == "omitted"
Assumes == {"true", "false", Omitted}

\* Mutant of has(): an unknown version is always assumed capable.
AssumeIfUnknown_always(a) == TRUE

\* `assumeIfUnknown = true`: the default of the parameter
AssumeIfUnknown(a) == IF a = Omitted THEN TRUE ELSE a = "true"

\* Mutant of has(): the version is compared the wrong way round.
has_inverted(table, v, cap, a) ==
    IF v = Unknown THEN AssumeIfUnknown(a) ELSE Lt(v, table[cap])

\* NodeBinary.has(capability, assumeIfUnknown = true)
has(table, v, cap, a) ==
    IF v = Unknown THEN AssumeIfUnknown(a) ELSE Gte(v, table[cap])

NoAnswer == [cap |-> "none", assume |-> Omitted, result |-> FALSE]

CapInit ==
    /\ capTable = CHOOSE t \in CapTables : TRUE
    /\ binary = Unknown
    /\ answer = NoAnswer

\* new NodeBinary(path, version)
NewNodeBinary(v) ==
    /\ binary' = v
    /\ answer' = NoAnswer
    /\ UNCHANGED << capTable, launcherVars, envVars, bootVars, tel >>

\* binary.has(cap, a), binary.has(cap)
Has(cap, a) ==
    /\ answer' = [cap |-> cap, assume |-> a, result |-> has(capTable, binary, cap, a)]
    /\ UNCHANGED << capTable, binary, launcherVars, envVars, bootVars, tel >>

-----------------------------------------------------------------------------
(* resolveEnvironment: the NODE_OPTIONS variable *)

MaxOptLen == 2      \* symbols in a NODE_OPTIONS value read from an environment

\* A string is a sequence of symbols: the blank, the preload flag, and words
\* standing for other options and for path segments.
Blank == " "
RequireFlag == "--require"
OptionSymbols == {Blank, "--a", "--b"}

Strings(S, n) == UNION { [1 .. k -> S] : k \in 0 .. n }

\* bootloader.interpolatedPath: a path without blank
Paths == { << "p" >>, << "p", "q" >> }

\* Result of EnvironmentVars.lookup: a string, or undefined
Undefined == [defined |-> FALSE, str |-> << >>]
Defined(str) == [defined |-> TRUE, str |-> str]
EnvValues == {Undefined} \cup { Defined(str) : str \in Strings(OptionSymbols, MaxOptLen) }

\* JavaScript truthiness of `string | undefined`
Truthy(v) == v.defined /\ v.str # << >>

\* Line 325: ` --require ${bootloader.interpolatedPath} `
Preload(path) == << Blank, RequireFlag, Blank >> \o path \o << Blank >>

\* Mutant of lines 330-338: the ambient value is appended before the
\* configured one.
NodeOptions_ambientFirst(path, base, glob) ==
    Preload(path)
      \o (IF Truthy(glob) THEN << Blank >> \o glob.str ELSE << >>)
      \o (IF Truthy(base) THEN << Blank >> \o base.str \o << Blank >> ELSE << >>)

\* Lines 325-338: env.NODE_OPTIONS
NodeOptions(path, base, glob) ==
    Preload(path)
      \o (IF Truthy(base) THEN << Blank >> \o base.str \o << Blank >> ELSE << >>)
      \o (IF Truthy(glob) THEN << Blank >> \o glob.str ELSE << >>)

\* EnvironmentVars.merge for one variable: the merged-in value wins when defined
Merge(old, new) == IF new.defined THEN new ELSE old

\* The words of a string, as the runtime splits NODE_OPTIONS at blanks
RECURSIVE Words(_)
Words(str) ==
    IF str = << >> THEN << >>
    ELSE IF Head(str) = Blank THEN Words(Tail(str))
    ELSE LET rest == Words(Tail(str))
         IN IF Len(str) > 1 /\ str[2] # Blank
            THEN << << Head(str) >> \o Head(rest) >> \o Tail(rest)
            ELSE << << Head(str) >> >> \o rest

NoEnv == [path |-> << >>, base |-> Undefined, glob |-> Undefined]

EnvInit ==
    /\ envIn = NoEnv
    /\ envOut = Undefined

\* resolveEnvironment(run, binary) with the bootloader at `path`, NODE_OPTIONS
\* = base in the configured environment and = glob in process.env.
BuildEnvironment(path, base, glob) ==
    /\ envIn' = [path |-> path, base |-> base, glob |-> glob]
    /\ envOut' = Merge(base, Defined(NodeOptions(path, base, glob)))
    /\ UNCHANGED << launcherVars, capVars, bootVars, tel >>

-----------------------------------------------------------------------------
(* getBootloaderFile: where the bootloader is required from *)

Quote == "\""
Backslash == "\\"
Slash == "/"

Includes(str, sym) == \E i \in 1 .. Len(str) : str[i] = sym

\* forceForwardSlashes: every backslash becomes a forward slash
RECURSIVE forceForwardSlashes(_)
forceForwardSlashes(str) ==
    IF str = << >> THEN << >>
    ELSE << IF Head(str) = Backslash THEN Slash ELSE Head(str) >>
           \o forceForwardSlashes(Tail(str))

\* JSON.stringify of a string: quoted, backslashes and quotes escaped
RECURSIVE JsonEscape(_)
JsonEscape(str) ==
    IF str = << >> THEN << >>
    ELSE (IF Head(str) \in {Backslash, Quote} THEN << Backslash, Head(str) >>
          ELSE << Head(str) >>) \o JsonEscape(Tail(str))

JSONstringify(str) == << Quote >> \o JsonEscape(str) \o << Quote >>

\* path.join(dir, name) for a directory and a file name
PathJoin(dir, name) == dir \o << Slash, name >>

TmpName == "vscode-js-debug-bootloader.js"
NearFilename == ".vscode-js-debug-bootloader.js"

\* bootloaderDefaultPath: with and without a blank, with either separator
InstalledPaths ==
    { << "ext", Slash, "bootloader.js" >>,
      << "ext", Backslash, "bootloader.js" >>,
      << "my", Blank, "ext", Slash, "bootloader.js" >>,
      << "my", Blank, "ext", Backslash, "bootloader.js" >> }

\* os.tmpdir()
TmpDirs == { << "tmp" >>, << "my", Blank, "tmp" >> }

\* run.params.cwd: undefined, empty, without and with a blank
Cwds == { Undefined, Defined(<< >>), Defined(<< "work" >>),
          Defined(<< "my", Blank, "work" >>) }

BootInputs ==
    [installed : InstalledPaths, tmpdir : TmpDirs, cwd : Cwds,
     version : Versions \cup {Unknown}]

\* `dispose: () => undefined`
NoUnlink == Undefined

NoBootloader ==
    [called |-> FALSE, interpolatedPath |-> << >>, unlinks |-> NoUnlink,
     disposed |-> FALSE]

Returned(path, unlinks) ==
    [called |-> TRUE, interpolatedPath |-> path, unlinks |-> unlinks,
     disposed |-> FALSE]

\* Line 512: the text of the wrapper file
Contents(targetPath) == << "require(" >> \o JSONstringify(targetPath) \o << ")" >>

\* Mutant of line 513: the temporary directory is used only when it has no
\* blank.
TmpdirUsable_spaceFreeOnly(tmpdir, cwd) == ~Includes(tmpdir, Blank)

\* Line 513: `!os.tmpdir().includes(' ') || !cwd`
TmpdirUsable(tmpdir, cwd) == ~Includes(tmpdir, Blank) \/ ~Truthy(cwd)

\* Line 507: `binary.has(Capability.UseSpacesInRequirePath)`
SpacesAllowed(version) == has(capTable, version, "UseSpacesInRequirePath", Omitted)

BootInit ==
    /\ bootIn = CHOOSE i \in BootInputs : TRUE
    /\ bootOut = NoBootloader
    /\ bootFs = {}

\* getBootloaderFile(cwd, binary), its awaited writeFile included
GetBootloaderFile ==
    LET targetPath == forceForwardSlashes(bootIn.installed)
        tmpPath == PathJoin(bootIn.tmpdir, TmpName)
        nearPath == PathJoin(bootIn.cwd.str, NearFilename)
        write(path) == bootFs \cup {[path |-> path, contents |-> Contents(targetPath)]}
    IN  /\ ~bootOut.called
        /\ IF ~Includes(targetPath, Blank)
           THEN /\ bootOut' = Returned(targetPath, NoUnlink)
                /\ bootFs' = bootFs
           ELSE IF SpacesAllowed(bootIn.version)
           THEN /\ bootOut' = Returned(<< Quote >> \o targetPath \o << Quote >>, NoUnlink)
                /\ bootFs' = bootFs
           ELSE IF TmpdirUsable(bootIn.tmpdir, bootIn.cwd)
           THEN /\ bootOut' = Returned(tmpPath, NoUnlink)
                /\ bootFs' = write(tmpPath)
           ELSE /\ bootOut' = Returned(<< ".", Slash, NearFilename >>, Defined(nearPath))
                /\ bootFs' = write(nearPath)
        /\ UNCHANGED << bootIn, launcherVars, capVars, envVars, tel >>

\* The dispose() of the object returned, as _stopServer() calls it
DisposeBootloaderFile ==
    /\ bootOut.called
    /\ ~bootOut.disposed
    /\ bootOut' = [bootOut EXCEPT !.disposed = TRUE]
    /\ bootFs' = IF bootOut.unlinks.defined
                 THEN { f \in bootFs : f.path # bootOut.unlinks.str }
                 ELSE bootFs
    /\ UNCHANGED << bootIn, launcherVars, capVars, envVars, tel >>

-----------------------------------------------------------------------------
(* gatherTelemetryFromCdp: polling the process for its telemetry *)

Attempts == 8       \* `retries < 8`
BaseDelay == 50     \* `delay(50 * 2 ** retries)`

\* What `await cdp.Runtime.evaluate(...)` resolves to: nothing at all, a
\* missing or falsy value, the string of a process not yet defined, or the
\* telemetry object
EvaluateResults == {"none", "falsy", "string", "object"}

NoTelemetry ==
    [pc |-> "idle", retries |-> 0, evaluations |-> 0, delay |-> 0, reports |-> 0,
     forwarded |-> << >>, errors |-> 0, last |-> "none", result |-> "pending"]

TelInit == tel = NoTelemetry

\* `return;` / `return undefined;` / `return result;`
TelReturn(t, result) == [t EXCEPT !.pc = "returned", !.result = result]

\* Line 535: the loop condition
LoopContinues(retries) == retries < Attempts

\* Top of the loop body, or the loop's exit to `return undefined`
TelLoop(t) ==
    IF LoopContinues(t.retries)
    THEN [t EXCEPT !.pc = "evaluating", !.evaluations = @ + 1]
    ELSE TelReturn(t, "undefined")

\* gatherTelemetryFromCdp(cdp, run) is called and sends its first evaluation
GatherTelemetry ==
    /\ tel.pc = "idle"
    /\ tel' = TelLoop(tel)
    /\ UNCHANGED << launcherVars, capVars, envVars, bootVars >>

\* Mutant of line 547: the process handle is not looked at.
ShutDown_ignored == FALSE

\* Line 547: `!this.program`
ShutDown == program = NONE

\* Mutant of line 559: the delay does not grow.
Backoff_constant(retries) == BaseDelay

\* Line 559: `50 * 2 ** retries`
Backoff(retries) == BaseDelay * 2 ^ retries

\* The evaluation resolves to a result of kind `kind`; the handler runs up to
\* its next await or return.
EvaluateReturns(kind) ==
    /\ tel.pc = "evaluating"
    /\ LET t == [tel EXCEPT !.last = kind]
       IN tel' = IF ShutDown THEN TelReturn(t, "undefined")
                 ELSE IF kind \in {"none", "falsy"}
                 THEN TelReturn([t EXCEPT !.errors = @ + 1], "undefined")
                 ELSE IF kind = "string"
                 THEN [t EXCEPT !.pc = "delaying", !.delay = Backoff(t.retries)]
                 ELSE TelReturn([t EXCEPT !.reports = @ + 1,
                                          !.forwarded = Append(@, program)],
                                "telemetry")
    /\ UNCHANGED << launcherVars, capVars, envVars, bootVars >>

\* The delay is over: `continue` increments the counter and tests the loop
\* condition.
DelayElapsed ==
    /\ tel.pc = "delaying"
    /\ tel' = TelLoop([tel EXCEPT !.retries = @ + 1])
    /\ UNCHANGED << launcherVars, capVars, envVars, bootVars >>

PureInit == CapInit /\ EnvInit /\ BootInit /\ TelInit

-----------------------------------------------------------------------------
(* Invocations and calls a behaviour may make *)

\* The q-th launchProgram() invocation of a behaviour that makes at most n:
\* not yet made, or never made ("absent").
ProcSlot(q, n) ==
    [st |-> IF q <= n THEN "unused" ELSE "absent",
     server |-> NONE, params |-> NONE, token |-> NoToken]

\* The r-th restart() call of a behaviour that makes at most n
RestartSlot(r, n) ==
    [pc |-> IF r <= n THEN "idle" ELSE "absent",
     prog |-> NONE, np |-> NONE, waitOn |-> {}, new |-> NONE]

-----------------------------------------------------------------------------
(* Constructor: field initialisers of the class *)

LauncherInit ==
    /\ run = NoRun
    /\ program = NONE
    /\ serverConnections = {}
    /\ targets = << >>
    /\ seenOpeners = << >>
    /\ terminated = << >>
    /\ srv = [s \in ServerIds |-> "unused"]
    /\ lau = [s \in ServerIds |-> [pc |-> "idle", params |-> NONE, proc |-> NONE]]
    /\ proc = [q \in ProcIds |-> ProcSlot(q, MaxProcs)]
    /\ rst = [r \in RestartIds |-> RestartSlot(r, MaxRestarts)]
    /\ conn = [c \in ConnIds |-> [st |-> "unused", open |-> FALSE, tid |-> NONE, oid |-> NONE]]
    /\ workers = [c \in ConnIds |-> [w \in WorkerSess |-> "none"]]
    /\ bootloaderFile = NONE
    /\ disposedFiles = {}
    /\ hung = FALSE
    /\ launchRet = NoReturn
    /\ lastTerm = [done |-> FALSE, wait |-> NONE]

Init == LauncherInit /\ PureInit

-----------------------------------------------------------------------------
(* Connection teardown: Connection.close() / a disconnect of the remote end  *)
(* fires onDisconnected synchronously, which runs every listener the         *)
(* launcher registered on that connection.                                   *)

Restrict(f, S) == [k \in S |-> f[k]]

\* Keys removed from the live map by the disconnect listeners of the
\* connections in S: `target.onDisconnect(() => this.targets.remove(targetId))`
\* of an attached process target, and `parent.onDisconnect(() =>
\* disposables.dispose())` of each of its workers that is still attached.
DisconnectKeys(S) ==
    { conn[c].tid : c \in { d \in S : conn[d].st = "attached" } }
      \cup { WorkerTid(conn[cw[1]].tid, cw[2]) :
               cw \in { dx \in S \X WorkerSess : workers[dx[1]][dx[2]] = "attached" } }

\* ObservableMap.remove(key) for every key in K
TargetsRemove(tg, K) == Restrict(tg, DOMAIN tg \ K)

\* Map.set(key, value)
MapSet(f, k, v) == [x \in DOMAIN f \cup {k} |-> IF x = k THEN v ELSE f[x]]

\* ObservableMap.add(key, target)
TargetsAdd(tg, k, t) == MapSet(tg, k, t)

\* A socket that is gone: nothing of it is read again.
ClosedConn == [st |-> "closed", open |-> FALSE, tid |-> NONE, oid |-> NONE]

\* A connection closed between its announcement and the resumption of
\* _startSession keeps the announced descriptor: the continuation still runs.
ConnAfterClose(S) ==
    [c \in ConnIds |->
        IF c \in S
        THEN (IF conn[c].st = "announced" THEN [conn[c] EXCEPT !.open = FALSE]
                                           ELSE ClosedConn)
        ELSE conn[c]]

WorkersAfterClose(S) ==
    [c \in ConnIds |-> [w \in WorkerSess |->
        IF c \in S /\ workers[c][w] = "attached" THEN "orphaned" ELSE workers[c][w]]]

\* The restart() calls racing on `c.onDisconnected(r)` see the disconnects of S.
RstAfterClose(f, S) ==
    [r \in RestartIds |-> [f[r] EXCEPT !.waitOn = @ \ S]]

\* Mutant of closeAllConnections: the connections are closed, the set is kept.
closeAllConnections_kept ==
    /\ conn' = ConnAfterClose(serverConnections)
    /\ targets' = TargetsRemove(targets, DisconnectKeys(serverConnections))
    /\ workers' = WorkersAfterClose(serverConnections)
    /\ serverConnections' = serverConnections

\* closeAllConnections(): close every tracked connection, clear the set.
closeAllConnections ==
    /\ conn' = ConnAfterClose(serverConnections)
    /\ targets' = TargetsRemove(targets, DisconnectKeys(serverConnections))
    /\ workers' = WorkersAfterClose(serverConnections)
    /\ serverConnections' = {}

\* `this.run?.server.close()` of _stopServer()
SrvAfterStop == IF run # NoRun THEN [srv EXCEPT ![run.server] = "closed"] ELSE srv

\* Mutant of lines 372-373: _stopServer() leaves the memoized slot as it is.
ForgottenSlot_kept == bootloaderFile

\* Lines 372-373: `this.bootloaderFile.forget()` after the held value, if any,
\* is scheduled for disposal.
ForgottenSlot == NONE

\* Line 372: `this.bootloaderFile.value?.then(f => f.dispose())`: the result
\* the slot holds, already computed or still being computed, is disposed of.
DisposedAfterStop ==
    IF bootloaderFile # NONE THEN disposedFiles \cup {bootloaderFile} ELSE disposedFiles

\* _stopServer() but for the srv and rst variables, which callers compose
\* with their own updates (SrvAfterStop, RstAfterClose).
StopServerCore ==
    /\ run' = NoRun
    /\ disposedFiles' = DisposedAfterStop
    /\ bootloaderFile' = ForgottenSlot
    /\ closeAllConnections

\* onProgramTerminated(result)
onProgramTerminated(result) ==
    /\ terminated' = Append(terminated, result)
    /\ StopServerCore
    /\ srv' = SrvAfterStop
    /\ program' = NONE

\* Bookkeeping of the latest terminate() call: a step of another operation of
\* the launcher (launch, restart, dispose) taken while terminate() awaits the
\* stop ends the sequence "terminate(); terminate()". Process exits and
\* connection events do not.
TermKeep == lastTerm' = [done |-> FALSE, wait |-> lastTerm.wait]
TermReset == lastTerm' = [done |-> FALSE, wait |-> NONE]

-----------------------------------------------------------------------------
(* Capacity of the bounded model *)

\* Identities of calls and objects are handed out in increasing order.
FirstOf(S) == { x \in S : \A y \in S : x <= y }

UnusedProcs == { q \in ProcIds : proc[q].st = "unused" }
FreeProcs == FirstOf(UnusedProcs)
FreeServers == FirstOf({ s \in ServerIds : srv[s] = "unused" })
FreeConns == FirstOf({ c \in ConnIds : conn[c].st = "unused" })

\* launch() and restart() calls that will still invoke launchProgram()
PendingLaunchPrograms ==
    Cardinality({ s \in ServerIds : lau[s].pc = "bind" })
      + Cardinality({ r \in RestartIds : rst[r].pc \in {"stop", "wait"} })

MayStartLaunchProgram == Cardinality(UnusedProcs) > PendingLaunchPrograms

CanFire == Len(terminated) < MaxFired

\* An invocation of launchProgram that is over
EndedInvocation(st) == [st |-> st, server |-> NONE, params |-> NONE, token |-> NoToken]

\* A restart() call that has returned (or thrown)
EndedRestart(pc) == [pc |-> pc, prog |-> NONE, np |-> NONE, waitOn |-> {}, new |-> NONE]

\* launchProgram(runData) is entered: it resolves the binary ("launching"),
\* then the environment ("env"), then spawns.
NewInvocation(s, p, tok) == [st |-> "launching", server |-> s, params |-> p, token |-> tok]

-----------------------------------------------------------------------------
(* launch(params, context) *)

\* launch() up to `await this._startServer(...)`: resolveParams, _stopServer,
\* getRandomPipe and net.createServer().listen(pipe).
LaunchCall(p) ==
    /\ ~hung
    /\ IF resolveParams(p) = NONE
       THEN \* return { blockSessionTermination: false }
            /\ launchRet' = NotMine
            /\ UNCHANGED << run, program, serverConnections, targets, seenOpeners,
                            terminated, srv, lau, proc, rst, conn, workers, bootloaderFile, disposedFiles >>
       ELSE /\ MayStartLaunchProgram
            /\ launchRet' = NoReturn
            /\ \E s \in FreeServers :
                 /\ srv' = [SrvAfterStop EXCEPT ![s] = "binding"]
                 /\ lau' = [lau EXCEPT ![s] = [pc |-> "bind", params |-> resolveParams(p),
                                               proc |-> NONE]]
            /\ StopServerCore
            /\ rst' = RstAfterClose(rst, serverConnections)
            /\ UNCHANGED << program, seenOpeners, terminated, proc >>
    /\ TermReset
    /\ UNCHANGED pureVars
    /\ UNCHANGED hung

\* The run stored by launch() once the server listens (lines 165-175).
StoredRun(s) == [server |-> s, params |-> lau[s].params]

\* The listen callback resolves _startServer: launch() stores the RunData and
\* calls launchProgram(run), which suspends before it spawns.
LaunchBound(s) ==
    /\ ~hung
    /\ lau[s].pc = "bind"
    /\ srv' = [srv EXCEPT ![s] = "listening"]
    /\ run' = StoredRun(s)
    /\ \E q \in FreeProcs :
         /\ proc' = [proc EXCEPT ![q] = NewInvocation(s, lau[s].params, LaunchToken)]
         /\ lau' = [lau EXCEPT ![s].pc = "prog", ![s].proc = q]
    /\ TermReset
    /\ UNCHANGED pureVars
    /\ launchRet' = NoReturn
    /\ UNCHANGED << bootloaderFile, disposedFiles >>
    /\ UNCHANGED << program, serverConnections, targets, seenOpeners, terminated,
                    rst, conn, workers, hung >>

\* The server emits 'error' instead: _startServer rejects and launch() fails.
LaunchBindError(s) ==
    /\ ~hung
    /\ lau[s].pc = "bind"
    /\ srv' = [srv EXCEPT ![s] = "failed"]
    /\ lau' = [lau EXCEPT ![s] = [pc |-> "failed", params |-> NONE, proc |-> NONE]]
    /\ TermReset
    /\ UNCHANGED pureVars
    /\ launchRet' = NoReturn
    /\ UNCHANGED << bootloaderFile, disposedFiles >>
    /\ UNCHANGED << run, program, serverConnections, targets, seenOpeners, terminated,
                    proc, rst, conn, workers, hung >>

\* The callers suspended on `await this.launchProgram(...)` of invocation q resume.
LauAfterLaunchProgram(q, pc) ==
    [s \in ServerIds |-> IF lau[s].pc = "prog" /\ lau[s].proc = q
                         THEN [pc |-> pc, params |-> NONE, proc |-> NONE] ELSE lau[s]]

RstAfterLaunchProgram(q, pc) ==
    [r \in RestartIds |-> IF rst[r].pc = "prog" /\ rst[r].new = q
                          THEN EndedRestart(pc) ELSE rst[r]]

\* Mutant of line 131: the slot is not memoized, every request runs
\* getBootloaderFile again.
SlotAfterRequest_recomputed(q) == q

\* The value the memoized slot holds after invocation q asked for the
\* bootloader file (line 302): the first request since the slot was last
\* forgotten runs getBootloaderFile, later ones share its result.
SlotAfterRequest(q) == IF bootloaderFile = NONE THEN q ELSE bootloaderFile

\* launchProgram() of invocation q has resolved the binary and calls
\* resolveEnvironment(run, binary), which asks for the bootloader file.
ResolveEnvironment(q) ==
    /\ ~hung
    /\ proc[q].st = "launching"
    /\ proc' = [proc EXCEPT ![q].st = "env"]
    /\ bootloaderFile' = SlotAfterRequest(q)
    /\ UNCHANGED disposedFiles
    /\ TermReset
    /\ UNCHANGED pureVars
    /\ launchRet' = NoReturn
    /\ UNCHANGED << run, program, serverConnections, targets, seenOpeners, terminated,
                    srv, lau, rst, conn, workers, hung >>

\* launchProgram() spawns the process and stores its handle in this.program.
LaunchProgramDone(q) ==
    /\ ~hung
    /\ proc[q].st = "env"
    /\ proc' = [proc EXCEPT ![q].st = "running"]
    /\ program' = q
    /\ lau' = LauAfterLaunchProgram(q, "done")
    /\ rst' = RstAfterLaunchProgram(q, "done")
    /\ launchRet' = IF \E s \in ServerIds : lau[s].pc = "prog" /\ lau[s].proc = q
                    THEN Launched ELSE NoReturn
    /\ TermReset
    /\ UNCHANGED pureVars
    /\ UNCHANGED << bootloaderFile, disposedFiles >>
    /\ UNCHANGED << run, serverConnections, targets, seenOpeners, terminated,
                    srv, conn, workers, hung >>

\* launchProgram() throws before it spawns (binary or environment not resolved).
LaunchProgramFail(q) ==
    /\ ~hung
    /\ proc[q].st \in {"launching", "env"}
    /\ proc' = [proc EXCEPT ![q] = EndedInvocation("failed")]
    /\ lau' = LauAfterLaunchProgram(q, "failed")
    /\ rst' = RstAfterLaunchProgram(q, "failed")
    /\ TermReset
    /\ UNCHANGED pureVars
    /\ launchRet' = NoReturn
    /\ UNCHANGED << bootloaderFile, disposedFiles >>
    /\ UNCHANGED << run, program, serverConnections, targets, seenOpeners, terminated,
                    srv, conn, workers, hung >>

-----------------------------------------------------------------------------
(* Exit of a spawned process, terminate(), dispose() *)

\* Mutant of line 188: terminate() synthesizes another result.
SynthesizedResult_exit == [code |-> 1, killed |-> FALSE]

\* The result terminate() synthesizes when there is no process handle.
SynthesizedResult == [code |-> 0, killed |-> TRUE]

\* The restart() calls suspended on `await program.stop()` of process q resume
\* and start the race of line 206 over the connections tracked at that time.
RstAfterStop(f, q, tracked) ==
    [r \in RestartIds |-> IF f[r].pc = "stop" /\ f[r].prog = q
                          THEN [f[r] EXCEPT !.pc = "wait", !.waitOn = tracked]
                          ELSE f[r]]

\* Process q exits: the exit listener launchProgram() registered calls
\* onProgramTerminated if q is still the launcher's process handle, and every
\* pending `program.stop()` of q resolves.
ProcExit(q, code) ==
    /\ ~hung
    /\ proc[q].st \in {"running", "stopping"}
    /\ IF program = q
       THEN /\ CanFire
            /\ onProgramTerminated([code |-> code, killed |-> proc[q].st = "stopping"])
            /\ rst' = RstAfterStop(RstAfterClose(rst, serverConnections), q, {})
       ELSE /\ rst' = RstAfterStop(rst, q, serverConnections)
            /\ UNCHANGED << run, program, serverConnections, targets, terminated,
                            srv, conn, workers, bootloaderFile, disposedFiles >>
    /\ proc' = [proc EXCEPT ![q] = EndedInvocation("exited")]
    /\ lastTerm' = [done |-> lastTerm.wait = q,
                    wait |-> IF \/ lastTerm.wait = q
                                \/ \E r \in RestartIds : rst[r].pc = "stop" /\ rst[r].prog = q
                             THEN NONE ELSE lastTerm.wait]
    /\ launchRet' = NoReturn
    /\ UNCHANGED pureVars
    /\ UNCHANGED << seenOpeners, lau, hung >>

\* terminate()
TerminateCall ==
    /\ ~hung
    /\ IF program # NONE
       THEN \* await this.program.stop()
            /\ proc' = [proc EXCEPT ![program].st = "stopping"]
            /\ lastTerm' = [done |-> FALSE, wait |-> program]
            /\ UNCHANGED << run, program, serverConnections, targets, terminated,
                            srv, rst, conn, workers, bootloaderFile, disposedFiles >>
       ELSE /\ CanFire
            /\ onProgramTerminated(SynthesizedResult)
            /\ rst' = RstAfterClose(rst, serverConnections)
            /\ lastTerm' = [done |-> TRUE, wait |-> NONE]
            /\ UNCHANGED proc
    /\ launchRet' = NoReturn
    /\ UNCHANGED pureVars
    /\ UNCHANGED << seenOpeners, lau, hung >>

\* dispose()
Dispose ==
    /\ ~hung
    /\ StopServerCore
    /\ srv' = SrvAfterStop
    /\ rst' = RstAfterClose(rst, serverConnections)
    /\ TermReset
    /\ UNCHANGED pureVars
    /\ launchRet' = NoReturn
    /\ UNCHANGED << program, seenOpeners, terminated, lau, proc, hung >>

-----------------------------------------------------------------------------
(* restart(newParams) *)

\* Mutant of line 203: restart() keeps the process handle while it stops it.
DetachedProgram_kept == program

\* Line 203, `this.program = undefined`, executed before `program.stop()`.
DetachedProgram == NONE

\* Mutant of line 220: the new parameters are used whether they resolve or not.
RelaunchParams_unresolved(np) == IF np # NONE THEN resolveParams(np) ELSE run.params

\* Line 220: params of the relaunch
RelaunchParams(np) ==
    IF np # NONE
    THEN (IF resolveParams(np) # NONE THEN resolveParams(np) ELSE run.params)
    ELSE run.params

\* Lines 223-225: cancellationToken of the relaunch's context
RelaunchToken ==
    [by |-> "restart",
     ms |-> IF TimeoutOf(run.params) > 0 THEN TimeoutOf(run.params) ELSE NONE]

\* Lines 217-227 for restart call r; `closed` are the connections force-closed
\* just before (line 213). With this.run undefined, `this.run.context` throws a
\* TypeError and launchProgram is not called.
Relaunch(r, np, closed) ==
    IF run = NoRun
    THEN /\ rst' = [RstAfterClose(rst, closed) EXCEPT ![r] = EndedRestart("threw")]
         /\ UNCHANGED proc
    ELSE \E q \in FreeProcs :
         /\ proc' = [proc EXCEPT ![q] = NewInvocation(run.server, RelaunchParams(np),
                                                      RelaunchToken)]
         /\ rst' = [RstAfterClose(rst, closed) EXCEPT
                      ![r] = [EndedRestart("prog") EXCEPT !.new = q, !.np = np]]

\* Mutant of line 196: restart() does not look at the run on entry.
NoActiveRun_ignored == FALSE

\* Line 196: `!this.run`
NoActiveRun == run = NoRun

\* restart() up to its first suspension point.
RestartCall(r, np) ==
    /\ ~hung
    /\ rst[r].pc = "idle"
    /\ \A r2 \in RestartIds : r2 < r => rst[r2].pc # "idle"
    /\ IF NoActiveRun
       THEN /\ rst' = [rst EXCEPT ![r] = EndedRestart("noop")]
            /\ UNCHANGED << program, proc >>
       ELSE /\ MayStartLaunchProgram
            /\ IF program # NONE
               THEN /\ program' = DetachedProgram
                    /\ proc' = [proc EXCEPT ![program].st = "stopping"]
                    /\ rst' = [rst EXCEPT ![r].pc = "stop", ![r].prog = program,
                                          ![r].np = np]
               ELSE /\ Relaunch(r, np, {})
                    /\ UNCHANGED program
    /\ TermReset
    /\ UNCHANGED pureVars
    /\ launchRet' = NoReturn
    /\ UNCHANGED << bootloaderFile, disposedFiles >>
    /\ UNCHANGED << run, serverConnections, targets, seenOpeners, terminated,
                    srv, lau, conn, workers, hung >>

\* The race of line 206 is won by Promise.all: every connection tracked when
\* the wait began has signalled disconnect. closeOk is an array, hence truthy.
RestartAllClosed(r) ==
    /\ ~hung
    /\ rst[r].pc = "wait"
    /\ rst[r].waitOn = {}
    /\ Relaunch(r, rst[r].np, {})
    /\ TermReset
    /\ UNCHANGED pureVars
    /\ launchRet' = NoReturn
    /\ UNCHANGED << bootloaderFile, disposedFiles >>
    /\ UNCHANGED << run, program, serverConnections, targets, seenOpeners, terminated,
                    srv, lau, conn, workers, hung >>

\* The race is won by delay(2000): closeOk is false, closeAllConnections().
RestartTimeout(r) ==
    /\ ~hung
    /\ rst[r].pc = "wait"
    /\ rst[r].waitOn # {}
    /\ closeAllConnections
    /\ Relaunch(r, rst[r].np, serverConnections)
    /\ TermReset
    /\ UNCHANGED pureVars
    /\ launchRet' = NoReturn
    /\ UNCHANGED << bootloaderFile, disposedFiles >>
    /\ UNCHANGED << run, program, seenOpeners, terminated, srv, lau, hung >>

-----------------------------------------------------------------------------
(* Session server: _startSession(socket) and acquireTarget(socket) *)

\* Result of a walk that never returns
LOOP == -1

\* Mutant of lines 402-407: the declared opener is looked up without walking
\* the chain of recorded openers.
Walk_noChain(id, fuel) == id

\* Lines 402-407: the opener-chain walk from id. The maps do not change while
\* it runs, so a walk of more than Cardinality(DOMAIN seenOpeners) steps
\* revisits an id and never ends.
RECURSIVE Walk(_, _)
Walk(id, fuel) ==
    IF id # NONE /\ id \notin DOMAIN targets /\ id \in DOMAIN seenOpeners
    THEN (IF fuel = 0 THEN LOOP ELSE Walk(seenOpeners[id], fuel - 1))
    ELSE id

LivingOpenerId(oid) == Walk(oid, Cardinality(DOMAIN seenOpeners))

\* Line 417: `livingOpenerId ? this.targets.get(livingOpenerId) : undefined`
ParentOf(oid) ==
    IF LivingOpenerId(oid) \in DOMAIN targets THEN LivingOpenerId(oid) ELSE NONE

\* A socket connects to listening server s: _startSession up to the await of
\* the handshake inside acquireTarget.
Accept(c, s) ==
    /\ ~hung
    /\ c \in FreeConns
    /\ srv[s] = "listening"
    /\ IF run = NoRun
       THEN /\ conn' = [conn EXCEPT ![c].st = "ignored"]
            /\ UNCHANGED serverConnections
       ELSE /\ conn' = [conn EXCEPT ![c].st = "hs", ![c].open = TRUE]
            /\ serverConnections' = serverConnections \cup {c}
    /\ TermKeep
    /\ UNCHANGED pureVars
    /\ launchRet' = NoReturn
    /\ UNCHANGED << bootloaderFile, disposedFiles >>
    /\ UNCHANGED << run, program, targets, seenOpeners, terminated, srv, lau, proc,
                    rst, workers, hung >>

\* The runtime behind connection c announces its target: Target.targetCreated
\* resolves the promise acquireTarget awaits.
Announce(c, t, o) ==
    /\ ~hung
    /\ conn[c].st = "hs"
    /\ conn[c].open
    /\ conn' = [conn EXCEPT ![c].st = "announced", ![c].tid = t, ![c].oid = o]
    /\ TermKeep
    /\ UNCHANGED pureVars
    /\ launchRet' = NoReturn
    /\ UNCHANGED << bootloaderFile, disposedFiles >>
    /\ UNCHANGED << run, program, serverConnections, targets, seenOpeners, terminated,
                    srv, lau, proc, rst, workers, hung >>

\* The NodeTarget of lines 409-418 for connection c
\* Mutant of line 410: a target gets the parameters the running process was
\* launched with.
TargetParams_ofProgram == IF program # NONE THEN proc[program].params ELSE run.params

\* Line 410: `this.run.params`, the launch configuration of a new target
TargetParams == run.params

NewTarget(c) ==
    [conn |-> c, opener |-> conn[c].oid, parent |-> ParentOf(conn[c].oid),
     kind |-> "process", params |-> TargetParams]

\* Mutant of line 420: the opener of a new target is not recorded.
SeenAfterCreate_skipped(c) == seenOpeners

\* Line 420: this.seenOpeners.set(targetId, { openedBy: openerId })
SeenAfterCreate(c) == MapSet(seenOpeners, conn[c].tid, conn[c].oid)

\* Mutant of line 392: the run's liveness is not re-read after the handshake.
SessionTornDown_unchecked == FALSE

\* Line 392: the liveness of the run, re-read after the handshake
SessionTornDown == run = NoRun

\* _startSession resumes after `await this.acquireTarget(...)`.
HandshakeResume(c) ==
    /\ ~hung
    /\ conn[c].st = "announced"
    /\ IF SessionTornDown
       THEN \* socket.destroy()
            /\ conn' = [conn EXCEPT ![c] = [ClosedConn EXCEPT !.st = "destroyed"]]
            /\ UNCHANGED << targets, seenOpeners, hung >>
       ELSE IF LivingOpenerId(conn[c].oid) = LOOP
       THEN /\ hung' = TRUE
            /\ UNCHANGED << targets, seenOpeners, conn >>
       ELSE /\ seenOpeners' = SeenAfterCreate(c)
            /\ targets' = TargetsAdd(targets, conn[c].tid, NewTarget(c))
            /\ conn' = [conn EXCEPT ![c] = IF conn[c].open
                                           THEN [conn[c] EXCEPT !.st = "attached"]
                                           ELSE ClosedConn]
            /\ UNCHANGED hung
    /\ TermKeep
    /\ UNCHANGED pureVars
    /\ launchRet' = NoReturn
    /\ UNCHANGED << bootloaderFile, disposedFiles >>
    /\ UNCHANGED << run, program, serverConnections, terminated, srv, lau, proc,
                    rst, workers >>

\* The remote end of connection c goes away: onDisconnected fires.
\* Mutant of line 474: a connection does not leave the set when it
\* disconnects.
TrackedAfterDisconnect_kept(c) == serverConnections

\* Line 474: `connection.onDisconnected(() => this.serverConnections.delete(connection))`
TrackedAfterDisconnect(c) == serverConnections \ {c}

ConnDisconnect(c) ==
    /\ ~hung
    /\ conn[c].open
    /\ conn' = ConnAfterClose({c})
    /\ targets' = TargetsRemove(targets, DisconnectKeys({c}))
    /\ workers' = WorkersAfterClose({c})
    /\ serverConnections' = TrackedAfterDisconnect(c)
    /\ rst' = RstAfterClose(rst, {c})
    /\ TermKeep
    /\ UNCHANGED pureVars
    /\ launchRet' = NoReturn
    /\ UNCHANGED << bootloaderFile, disposedFiles >>
    /\ UNCHANGED << run, program, seenOpeners, terminated, srv, lau, proc, hung >>

-----------------------------------------------------------------------------
(* Worker sub-targets: listenToWorkerDomain *)

\* The NodeWorkerTarget of lines 433-448 reported over connection c
\* Line 434: `parent.launchConfig`, the parameters the parent was created with
ParentLaunchConfig(c) ==
    IF conn[c].tid \in DOMAIN targets THEN targets[conn[c].tid].params ELSE run.params

NewWorkerTarget(c) ==
    [conn |-> c, opener |-> conn[c].tid, parent |-> conn[c].tid, kind |-> "worker",
     params |-> ParentLaunchConfig(c)]

\* NodeWorker.attachedToWorker on the session of connection c
WorkerAttached(c, w) ==
    /\ ~hung
    /\ conn[c].st = "attached"
    /\ conn[c].open
    /\ workers[c][w] = "none"
    /\ targets' = TargetsAdd(targets, WorkerTid(conn[c].tid, w), NewWorkerTarget(c))
    /\ workers' = [workers EXCEPT ![c][w] = "attached"]
    /\ TermKeep
    /\ UNCHANGED pureVars
    /\ launchRet' = NoReturn
    /\ UNCHANGED << bootloaderFile, disposedFiles >>
    /\ UNCHANGED << run, program, serverConnections, seenOpeners, terminated, srv,
                    lau, proc, rst, conn, hung >>

\* disposables.dispose() of worker session w: the list runs its callback
\* (line 454) the first time only.
DisposedKeys(c, w) ==
    IF workers[c][w] = "attached" THEN {WorkerTid(conn[c].tid, w)} ELSE {}

\* transport.onEnd of worker session w: disposables.dispose()
WorkerEnd(c, w) ==
    /\ ~hung
    /\ workers[c][w] \in {"attached", "orphaned"}
    /\ targets' = TargetsRemove(targets, DisposedKeys(c, w))
    /\ workers' = [workers EXCEPT ![c][w] = "ended"]
    /\ TermKeep
    /\ UNCHANGED pureVars
    /\ launchRet' = NoReturn
    /\ UNCHANGED << bootloaderFile, disposedFiles >>
    /\ UNCHANGED << run, program, serverConnections, seenOpeners, terminated, srv,
                    lau, proc, rst, conn, hung >>

-----------------------------------------------------------------------------

\* Lifecycle specification: every launcher operation, overlapping launch()
\* and restart() calls included, with MaxLifeConns connections.
LifeConnIds == 1 .. MaxLifeConns
LifeTids == 1 .. MaxLifeTid

Next ==
    \/ \E p \in Params : LaunchCall(p)
    \/ \E s \in ServerIds : LaunchBound(s)
    \/ \E s \in ServerIds : LaunchBindError(s)
    \/ \E q \in ProcIds : ResolveEnvironment(q)
    \/ \E q \in ProcIds : LaunchProgramDone(q)
    \/ \E q \in ProcIds : LaunchProgramFail(q)
    \/ \E q \in ProcIds, code \in ExitCodes : ProcExit(q, code)
    \/ TerminateCall
    \/ Dispose
    \/ \E r \in RestartIds, np \in Params \cup {NONE} : RestartCall(r, np)
    \/ \E r \in RestartIds : RestartAllClosed(r)
    \/ \E r \in RestartIds : RestartTimeout(r)
    \/ \E c \in LifeConnIds, s \in ServerIds : Accept(c, s)
    \/ \E c \in LifeConnIds, t \in LifeTids, o \in LifeTids \cup {NONE} : Announce(c, t, o)
    \/ \E c \in LifeConnIds : HandshakeResume(c)
    \/ \E c \in LifeConnIds : ConnDisconnect(c)
    \/ \E c \in LifeConnIds, w \in WorkerSess : WorkerAttached(c, w)
    \/ \E c \in LifeConnIds, w \in WorkerSess : WorkerEnd(c, w)

Spec == Init /\ [][Next]_vars

\* Session specification: from the state a successful launch() leaves (server
\* listening, RunData stored, process spawned), MaxConns connections announce
\* MaxTid target ids while the process is restarted, terminated or exits.
SessionState(procs, restarts) ==
    /\ run = [server |-> 1, params |-> 1]
    /\ program = 1
    /\ serverConnections = {}
    /\ targets = << >>
    /\ seenOpeners = << >>
    /\ terminated = << >>
    /\ srv = [s \in ServerIds |-> IF s = 1 THEN "listening" ELSE "unused"]
    /\ lau = [s \in ServerIds |->
                 [pc |-> IF s = 1 THEN "done" ELSE "idle", params |-> NONE, proc |-> NONE]]
    /\ proc = [q \in ProcIds |->
                 IF q = 1 THEN [st |-> "running", server |-> 1, params |-> 1,
                                token |-> LaunchToken]
                 ELSE ProcSlot(q, procs)]
    /\ rst = [r \in RestartIds |-> RestartSlot(r, restarts)]
    /\ conn = [c \in ConnIds |-> [st |-> "unused", open |-> FALSE, tid |-> NONE, oid |-> NONE]]
    /\ workers = [c \in ConnIds |-> [w \in WorkerSess |-> "none"]]
    /\ bootloaderFile = 1
    /\ disposedFiles = {}
    /\ hung = FALSE
    /\ launchRet = NoReturn
    /\ lastTerm = [done |-> FALSE, wait |-> NONE]
    /\ PureInit

SessionInit == SessionState(MaxProcs, MaxRestarts)

SessionNext ==
    \/ \E q \in ProcIds, code \in ExitCodes : ProcExit(q, code)
    \/ TerminateCall
    \/ \E c \in ConnIds, s \in ServerIds : Accept(c, s)
    \/ \E c \in ConnIds, t \in Tids, o \in Tids \cup {NONE} : Announce(c, t, o)
    \/ \E c \in ConnIds : HandshakeResume(c)
    \/ \E c \in ConnIds : ConnDisconnect(c)

SessionSpec == SessionInit /\ [][SessionNext]_vars

\* Restart specification: from the same state, restart() races its bounded
\* wait against the disconnects of MaxWaitConns connections, each of a root
\* target (no opener).
WaitConnIds == 1 .. MaxWaitConns

RestartNext ==
    \/ \E r \in RestartIds, np \in Params \cup {NONE} : RestartCall(r, np)
    \/ \E r \in RestartIds : RestartAllClosed(r)
    \/ \E r \in RestartIds : RestartTimeout(r)
    \/ \E q \in ProcIds : ResolveEnvironment(q)
    \/ \E q \in ProcIds : LaunchProgramDone(q)
    \/ \E q \in ProcIds, code \in ExitCodes : ProcExit(q, code)
    \/ TerminateCall
    \/ \E c \in WaitConnIds, s \in ServerIds : Accept(c, s)
    \/ \E c \in WaitConnIds, t \in Tids : Announce(c, t, NONE)
    \/ \E c \in WaitConnIds : HandshakeResume(c)
    \/ \E c \in WaitConnIds : ConnDisconnect(c)

RestartSpec == SessionInit /\ [][RestartNext]_vars

\* Overlap specification: the restart specification with one more restart()
\* call and one more launchProgram() invocation, so that a restart() can be
\* called while another one is suspended.
OverlapInit == SessionState(MaxProcs + 1, MaxRestarts + 1)

OverlapSpec == OverlapInit /\ [][RestartNext]_vars

\* Fairness of the restart path: a requested stop ends the process, the timer
\* of the bounded wait fires, and a settled race resumes restart().
FairRestartSpec ==
    /\ RestartSpec
    /\ \A q \in ProcIds : WF_vars(\E code \in ExitCodes : ProcExit(q, code))
    /\ \A r \in RestartIds : WF_vars(RestartAllClosed(r))
    /\ \A r \in RestartIds : WF_vars(RestartTimeout(r))

\* Worker specification: from the state a successful launch() leaves,
\* MaxWaitConns connections announce root targets and report worker sessions.
WorkerNext ==
    \/ \E c \in WaitConnIds, s \in ServerIds : Accept(c, s)
    \/ \E c \in WaitConnIds, t \in Tids : Announce(c, t, NONE)
    \/ \E c \in WaitConnIds : HandshakeResume(c)
    \/ \E c \in WaitConnIds : ConnDisconnect(c)
    \/ \E c \in WaitConnIds, w \in WorkerSess : WorkerAttached(c, w)
    \/ \E c \in WaitConnIds, w \in WorkerSess : WorkerEnd(c, w)

WorkerSpec == SessionInit /\ [][WorkerNext]_vars

\* Capability specification: binaries of every version of the bounded range,
\* and of unknown version, are queried under every table that agrees with the
\* matrix.
CapabilityInit ==
    /\ LauncherInit
    /\ EnvInit
    /\ BootInit
    /\ TelInit
    /\ capTable \in CapTables
    /\ binary = Unknown
    /\ answer = NoAnswer

\* Environment specification: resolveEnvironment is applied to every
\* bootloader path and every pair of configured and ambient NODE_OPTIONS of
\* the bounded range.
EnvironmentNext ==
    \E path \in Paths, base \in EnvValues, glob \in EnvValues :
        BuildEnvironment(path, base, glob)

EnvironmentSpec == Init /\ [][EnvironmentNext]_vars

CapabilityNext ==
    \/ \E v \in Versions \cup {Unknown} : NewNodeBinary(v)
    \/ \E cap \in Capabilities, a \in Assumes : Has(cap, a)

CapabilitySpec == CapabilityInit /\ [][CapabilityNext]_vars

\* Bootloader specification: getBootloaderFile is called once for every
\* installed path, temporary directory, working directory and binary of the
\* bounded range, and the object it returns is disposed of.
BootloaderInit ==
    /\ LauncherInit
    /\ CapInit
    /\ EnvInit
    /\ bootIn \in BootInputs
    /\ bootOut = NoBootloader
    /\ bootFs = {}
    /\ TelInit

BootloaderNext ==
    \/ GetBootloaderFile
    \/ DisposeBootloaderFile

BootloaderSpec == BootloaderInit /\ [][BootloaderNext]_vars

\* Telemetry specification: one call of gatherTelemetryFromCdp on a running
\* session, every evaluation resolving to any kind of result, while the
\* process exits or the launcher is told to terminate or restart.
TelemetryNext ==
    \/ GatherTelemetry
    \/ \E kind \in EvaluateResults : EvaluateReturns(kind)
    \/ DelayElapsed
    \/ \E q \in ProcIds, code \in ExitCodes : ProcExit(q, code)
    \/ TerminateCall
    \/ \E r \in RestartIds, np \in Params \cup {NONE} : RestartCall(r, np)
    \/ \E r \in RestartIds : RestartAllClosed(r)
    \/ \E q \in ProcIds : ResolveEnvironment(q)
    \/ \E q \in ProcIds : LaunchProgramDone(q)

TelemetrySpec == SessionInit /\ [][TelemetryNext]_vars

\* Fairness of the gatherer: the inspector answers (or drops) every
\* evaluation and the timer of every delay fires.
FairTelemetrySpec ==
    /\ TelemetrySpec
    /\ WF_vars(\E kind \in EvaluateResults : EvaluateReturns(kind))
    /\ WF_vars(DelayElapsed)

-----------------------------------------------------------------------------
(* Properties *)

Spawned == { q \in ProcIds : proc[q].st \in {"running", "stopping", "exited"} }

\* C1: the termination notification is fired at most once per launched
\* process, whether by the process's exit or synthesized by terminate(): a
\* repeated terminate() never fires it again and it is never fired when no
\* process was launched.
C1_FiredOncePerProcess == Len(terminated) <= Cardinality(Spawned)

\* C2: at most one session server is bound and not closed at any time, and it
\* is the server of the stored RunData.
C2_OnlyTheRunsServerListens ==
    \A s \in ServerIds : srv[s] = "listening" => run.server = s

\* C3: restart() on an active run detaches the process handle before it
\* requests stop; neither that step, nor the exit of the stopped process, nor
\* the relaunch changes the stored RunData, closes its server or fires the
\* termination notification, and the relaunch gets the run's server.
C3_RestartKeepsRun ==
    [][\A r \in RestartIds :
         /\ (rst[r].pc = "idle" /\ rst'[r].pc = "stop") =>
               /\ program' = NONE
               /\ proc'[rst'[r].prog].st = "stopping"
               /\ run' = run /\ srv' = srv /\ terminated' = terminated
         /\ (rst[r].pc = "stop" /\ rst'[r].pc = "wait") =>
               /\ proc'[rst[r].prog].st = "exited"
               /\ run' = run /\ srv' = srv /\ terminated' = terminated
         /\ (rst[r].pc \in {"idle", "wait"} /\ rst'[r].pc = "prog") =>
               /\ run' = run /\ srv' = srv /\ terminated' = terminated
               /\ srv[run.server] = "listening"
               /\ proc'[rst'[r].new].server = run.server
      ]_vars

\* restart() relaunches after the process it stopped has exited, and no
\* termination notification was fired.
C3_Witness ==
    \E r \in RestartIds, q \in ProcIds :
        /\ rst[r].pc = "prog"
        /\ proc[q].st = "exited"
        /\ Cardinality(Spawned) = 1
        /\ run # NoRun
        /\ terminated = << >>

\* C4: a restart() in its bounded wait always leaves it and reaches the
\* relaunch step; when it leaves on the timeout (a connection tracked when the
\* wait began has not disconnected) every tracked connection is closed and the
\* tracked set is empty as launchProgram is invoked; when every awaited
\* connection disconnected first (or none was tracked) nothing is closed.
C4_BoundedWait ==
    /\ [][\A r \in RestartIds :
            (rst[r].pc = "wait" /\ rst'[r].pc # "wait") =>
               /\ rst'[r].pc \in {"prog", "threw"}
               /\ IF rst[r].waitOn # {}
                  THEN /\ serverConnections' = {}
                       /\ \A c \in serverConnections : ~conn'[c].open
                  ELSE /\ serverConnections' = serverConnections
                       /\ conn' = conn
         ]_vars
    /\ \A r \in RestartIds : (rst[r].pc = "stop") ~> (rst[r].pc \in {"prog", "threw"})

\* restart() has relaunched after its timeout force-closed two connections.
C4_Witness ==
    \E r \in RestartIds :
        /\ rst[r].pc = "prog"
        /\ serverConnections = {}
        /\ Cardinality({ c \in ConnIds : conn[c].st = "closed" }) >= 2
        /\ \A c \in ConnIds : conn[c].st # "unused" => conn[c].st = "closed"
        /\ terminated = << >>
        /\ Cardinality(Spawned) = 1

\* C5: restart() re-validates the run after each suspension point: when
\* terminate() or dispose() tore the run down meanwhile it abandons the
\* relaunch without raising an error.
C5_RestartNeverThrows == \A r \in RestartIds : rst[r].pc # "threw"

\* Identification of the step in which _startSession resumes for connection c
Resumes(c) == conn[c].st = "announced" /\ conn'[c].st # "announced"

\* C6: a handshake that completes while no run is active creates no Target,
\* adds nothing to the live map or to seenOpeners and destroys the socket; no
\* record is added to (or replaced in) the live map while the run is none.
C6_NoTargetWithoutRun ==
    [][/\ \A c \in ConnIds :
            (Resumes(c) /\ run = NoRun) =>
               /\ targets' = targets
               /\ seenOpeners' = seenOpeners
               /\ conn'[c].st = "destroyed"
       /\ (\E k \in DOMAIN targets' : k \notin DOMAIN targets \/ targets'[k] # targets[k])
             => (run # NoRun /\ run' # NoRun)
      ]_vars

\* A socket was destroyed because its handshake completed after teardown.
C6_Witness ==
    \E c \in ConnIds : conn[c].st = "destroyed" /\ run = NoRun /\ targets = << >>

\* C7: the disconnect of one target never removes or replaces the live-map
\* record of a different target whose connection is still open (a record
\* leaves the live map only because of its own disconnect).
C7_DisconnectRemovesOnlyOwnTarget ==
    [][\A c \in ConnIds :
         (conn[c].open /\ ~conn'[c].open) =>
            \A k \in DOMAIN targets :
               (targets[k].conn # c /\ conn'[targets[k].conn].open) =>
                  (k \in DOMAIN targets' /\ targets'[k] = targets[k])
      ]_vars

\* The chains o, seenOpeners[o], seenOpeners[seenOpeners[o]], ... whose ids
\* before the last are all absent from the live map and keys of seenOpeners.
ChainsFrom(o) ==
    { sq \in UNION { [1 .. n -> Tids] : n \in 1 .. (MaxTid + 1) } :
        /\ sq[1] = o
        /\ \A i \in 1 .. (Len(sq) - 1) :
              /\ sq[i] \notin DOMAIN targets
              /\ sq[i] \in DOMAIN seenOpeners
              /\ seenOpeners[sq[i]] = sq[i + 1] }

Last(sq) == sq[Len(sq)]

\* C8: a target created with declared opener O gets as parent the first id on
\* the chain O, seenOpeners[O], ... that is in the live map, and no parent
\* when the chain reaches an undefined opener or an id absent from seenOpeners
\* first; with C opened by B, B seen with opener A and removed, and A live,
\* C's parent is A.
C8_ParentIsFirstLiveAncestor ==
    [][\A c \in ConnIds :
         (Resumes(c) /\ run # NoRun /\ ~hung') =>
            LET o == conn[c].oid
                p == targets'[conn[c].tid].parent
            IN /\ \A sq \in ChainsFrom(o) : Last(sq) \in DOMAIN targets => p = Last(sq)
               /\ p # NONE => \E sq \in ChainsFrom(o) : Last(sq) = p /\ p \in DOMAIN targets
               /\ p = NONE =>
                     \/ o = NONE
                     \/ \E sq \in ChainsFrom(o) :
                           /\ Last(sq) \notin DOMAIN targets
                           /\ \/ Last(sq) \notin DOMAIN seenOpeners
                              \/ seenOpeners[Last(sq)] = NONE
               /\ \A a \in Tids :
                     (/\ o # NONE /\ o \notin DOMAIN targets /\ o \in DOMAIN seenOpeners
                      /\ seenOpeners[o] = a /\ a \in DOMAIN targets) => p = a
      ]_vars

\* A live target C whose declared opener B is gone and whose parent is B's
\* recorded opener A, which is live.
C8_Witness ==
    \E k \in DOMAIN targets :
        LET t == targets[k]
        IN /\ t.opener # NONE /\ t.parent # NONE
           /\ t.parent # t.opener /\ k # t.opener /\ k # t.parent
           /\ t.opener \notin DOMAIN targets
           /\ t.opener \in DOMAIN seenOpeners
           /\ seenOpeners[t.opener] = t.parent
           /\ t.parent \in DOMAIN targets

\* C9 as claimed: every target in the live map, process target and worker
\* sub-target alike, is a key of seenOpeners mapped to its declared opener.
C9_EveryLiveTargetSeen ==
    \A k \in DOMAIN targets :
        k \in DOMAIN seenOpeners /\ seenOpeners[k] = targets[k].opener

\* C9 amended: every target id placed in the live map by a handshake is a key
\* of seenOpeners mapped to the opener declared by the latest target
\* announced under that id (worker sub-targets are not recorded), and no
\* operation ever removes an entry.
C9_HandshakeTargetsSeen ==
    [][/\ \A k \in DOMAIN targets' :
            targets'[k].kind = "process" =>
               (k \in DOMAIN seenOpeners' /\ seenOpeners'[k] = targets'[k].opener)
       /\ \A k \in DOMAIN seenOpeners : k \in DOMAIN seenOpeners'
      ]_vars

\* After a teardown the opener of a removed target is still recorded.
C9_Witness ==
    /\ run = NoRun
    /\ Len(terminated) > 0
    /\ \E k \in DOMAIN seenOpeners : k \notin DOMAIN targets

\* C10: terminate() with a process handle only requests its stop; without one
\* it synthesizes a termination with code 0 and killed = true; and a
\* terminate() called right after a terminate() has completed (no step of
\* launch(), restart() or dispose() since the first call) leaves run, process
\* handle, tracked connections and live targets as they were.
C10_TerminateIdempotent ==
    [][TerminateCall =>
         /\ program # NONE =>
               /\ UNCHANGED << run, program, serverConnections, targets, terminated,
                               srv, conn >>
               /\ proc'[program].st = "stopping"
         /\ program = NONE =>
               /\ terminated' = Append(terminated, [code |-> 0, killed |-> TRUE])
               /\ run' = NoRun /\ program' = NONE /\ serverConnections' = {}
         /\ lastTerm.done => UNCHANGED << run, program, serverConnections, targets >>
      ]_vars

\* Two terminate() calls without a process handle have completed.
C10_Witness ==
    /\ lastTerm.done
    /\ Len(terminated) >= 2
    /\ \A i \in 1 .. Len(terminated) : terminated[i] = [code |-> 0, killed |-> TRUE]

\* C11: when onProgramTerminated(result) returns, that result has been fired
\* to the subscribers, the run is none and its server closed, every tracked
\* connection is closed and the tracked set is empty, the bootloader slot
\* holds no value and the process handle is none.
C11_IdleAfterTermination ==
    [][terminated' # terminated =>
         /\ \E result \in [code : ExitCodes \cup {0}, killed : BOOLEAN] :
               /\ terminated' = Append(terminated, result)
               /\ TerminateCall => result = [code |-> 0, killed |-> TRUE]
               /\ \A q \in ProcIds : (proc[q].st # "exited" /\ proc'[q].st = "exited") =>
                     result = [code |-> 1, killed |-> proc[q].st = "stopping"]
         /\ run' = NoRun
         /\ run # NoRun => srv'[run.server] = "closed"
         /\ \A c \in serverConnections : ~conn'[c].open
         /\ serverConnections' = {}
         /\ bootloaderFile' = NONE
         /\ program' = NONE
      ]_vars

\* The exit of the launched process was notified with a connection tracked
\* and the bootloader slot held; afterwards the launcher is idle.
C11_Witness ==
    /\ Len(terminated) = 1
    /\ ~terminated[1].killed
    /\ run = NoRun /\ program = NONE /\ serverConnections = {}
    /\ bootloaderFile = NONE
    /\ \E c \in ConnIds : conn[c].st = "closed"
    /\ \E s \in ServerIds : srv[s] = "closed"
    /\ \A s \in ServerIds : srv[s] # "listening"

\* C12: restart() called while no run is active is a no-op: it requests no
\* stop, closes no connection, does not invoke launchProgram, fires no
\* notification and leaves run, process handle, tracked connections, live
\* targets and seenOpeners unchanged.
C12_RestartWithoutRunIsNoop ==
    [][\A r \in RestartIds :
         (rst[r].pc = "idle" /\ rst'[r].pc # "idle" /\ run = NoRun) =>
            /\ rst'[r].pc = "noop"
            /\ UNCHANGED << run, program, serverConnections, targets, seenOpeners,
                            terminated, srv, lau, proc, conn, workers, bootloaderFile, disposedFiles >>
      ]_vars

\* restart() returned at once on a launcher whose run was disposed of while
\* its process kept running.
C12_Witness ==
    \E r \in RestartIds :
        /\ rst[r].pc = "noop"
        /\ run = NoRun
        /\ program # NONE /\ proc[program].st = "running"

\* C13: the relaunch of restart() gets the run's existing server (and with it
\* its IPC address); the new parameters when they resolve for this launcher,
\* else the run's parameters; and a token made by restart() that is scoped to
\* the timeout of the run's stored parameters when that timeout is greater
\* than 0 and never cancelled otherwise.
C13_RelaunchArguments ==
    [][\A r \in RestartIds :
         (rst[r].pc \in {"idle", "wait"} /\ rst'[r].pc = "prog") =>
            LET q == rst'[r].new
                np == rst'[r].np
            IN /\ proc[q].st = "unused" /\ proc'[q].st = "launching"
               /\ proc'[q].server = run.server
               /\ proc'[q].params \in {1, 2}
               /\ (np \in {1, 2}) => proc'[q].params = np
               /\ (np \notin {1, 2}) => proc'[q].params = run.params
               /\ proc'[q].token.by = "restart"
               /\ run.params = 2 => proc'[q].token.ms = 1
               /\ run.params = 1 => proc'[q].token.ms = NONE
      ]_vars

\* A restart() given parameters of another launcher type relaunched a run
\* whose parameters set a timeout.
C13_Witness ==
    \E r \in RestartIds :
        /\ rst[r].pc = "prog" /\ rst[r].np = OtherParams
        /\ proc[rst[r].new].params = 2
        /\ proc[rst[r].new].token = [by |-> "restart", ms |-> 1]

\* C14: launch() with parameters that do not resolve for this launcher
\* returns blockSessionTermination = false and changes nothing of the
\* launcher's state, an active run included; launch() with parameters that
\* resolve and whose launchProgram succeeds returns blockSessionTermination =
\* true.
C14_UnresolvedLaunchIsNoop ==
    [][/\ LaunchCall(OtherParams) => launchRet' = NotMine
       /\ launchRet' = NotMine =>
             UNCHANGED << run, program, serverConnections, targets, seenOpeners,
                          terminated, srv, lau, proc, rst, conn, workers,
                          bootloaderFile, disposedFiles, hung >>
       /\ \A s \in ServerIds :
             (lau[s].pc = "prog" /\ lau'[s].pc = "done") =>
                /\ launchRet' = Launched
                /\ lau[s].params \in {1, 2}
                /\ program' = lau[s].proc /\ proc'[program'].st = "running"
       /\ launchRet' = Launched =>
             \E s \in ServerIds : lau[s].pc = "prog" /\ lau'[s].pc = "done"
      ]_vars

\* launch() of another launcher's configuration returned while a run was
\* active with its process running and a target attached.
C14_Witness ==
    /\ launchRet = NotMine
    /\ run # NoRun /\ srv[run.server] = "listening"
    /\ program # NONE /\ proc[program].st = "running"
    /\ targets # << >>

\* C15: when the bind of the IPC endpoint fails, launch() fails having stored
\* no RunData, invoked no launchProgram and spawned no process, and the
\* launcher is idle; and after a successful bind the failure or disconnect
\* of one connection changes neither the tracked entries nor the live-map
\* records of any other connection.
C15_BindFailureAndIsolation ==
    [][/\ \A s \in ServerIds :
            (lau[s].pc = "bind" /\ lau'[s].pc # "bind" /\ srv'[s] # "listening") =>
               /\ lau'[s].pc = "failed"
               /\ run' = NoRun
               /\ UNCHANGED << run, program, proc, serverConnections, targets >>
       /\ \A c \in ConnIds :
            (/\ conn[c].open /\ ~conn'[c].open
             /\ \A d \in ConnIds \ {c} : conn'[d].open = conn[d].open) =>
               /\ serverConnections' \ {c} = serverConnections \ {c}
               /\ \A k \in DOMAIN targets :
                     targets[k].conn # c =>
                        (k \in DOMAIN targets' /\ targets'[k] = targets[k])
      ]_vars

\* C16: capabilities are monotonic in the version: for every capability and
\* precisely known versions A < B, a binary of version B has what a binary of
\* version A has; and the answers of the matrix hold (UseSpacesInRequirePath:
\* no at 10.0.0, yes at 12.0.0 and 12.8.0; UseInspectPublishUid: no at 10.0.0
\* and 12.0.0, yes at 12.8.0).
C16_CapabilitiesMonotonic ==
    /\ \A cap \in Capabilities, a \in Assumes, A \in Versions, B \in Versions :
          (Lt(A, B) /\ has(capTable, A, cap, a)) => has(capTable, B, cap, a)
    /\ ~has(capTable, Semver(10, 0, 0), "UseSpacesInRequirePath", Omitted)
    /\ has(capTable, Semver(12, 0, 0), "UseSpacesInRequirePath", Omitted)
    /\ has(capTable, Semver(12, 8, 0), "UseSpacesInRequirePath", Omitted)
    /\ ~has(capTable, Semver(10, 0, 0), "UseInspectPublishUid", Omitted)
    /\ ~has(capTable, Semver(12, 0, 0), "UseInspectPublishUid", Omitted)
    /\ has(capTable, Semver(12, 8, 0), "UseInspectPublishUid", Omitted)
    /\ (answer.cap # "none" /\ binary # Unknown /\ answer.result) =>
          \A B \in Versions : Lt(binary, B) => has(capTable, B, answer.cap, answer.assume)

\* A binary of version 12.0.1 answered yes for UseInspectPublishUid, under a
\* table whose minimum for it lies below 12.8.0.
C16_Witness ==
    /\ binary = Semver(12, 0, 1)
    /\ answer.cap = "UseInspectPublishUid" /\ answer.result
    /\ Lt(capTable["UseInspectPublishUid"], Semver(12, 8, 0))

\* C17: has(capability, assumeIfUnknown), assumeIfUnknown defaulting to true,
\* returns assumeIfUnknown when the version is not precisely known, and for a
\* precisely known version the answer of the table whatever assumeIfUnknown.
C17_AssumeOnlyIfUnknown ==
    /\ \A cap \in Capabilities :
          /\ has(capTable, Unknown, cap, "true")
          /\ ~has(capTable, Unknown, cap, "false")
          /\ has(capTable, Unknown, cap, Omitted)
    /\ \A cap \in Capabilities, v \in Versions, a \in Assumes :
          has(capTable, v, cap, a) <=> ~Lt(v, capTable[cap])
    /\ has(capTable, Semver(12, 0, 0), "UseSpacesInRequirePath", "false")
    /\ (answer.cap # "none" /\ binary = Unknown) =>
          (answer.result <=> answer.assume # "false")
    /\ (answer.cap # "none" /\ binary # Unknown) =>
          (answer.result <=> ~Lt(binary, capTable[answer.cap]))

\* A binary of unknown version was asked with assumeIfUnknown = false and
\* answered no.
C17_Witness ==
    /\ binary = Unknown
    /\ answer.cap = "UseSpacesInRequirePath" /\ answer.assume = "false"
    /\ ~answer.result

\* C18: NODE_OPTIONS produced by resolveEnvironment begins with the preload
\* flag for the bootloader path, followed by the NODE_OPTIONS of the
\* configured environment if any, followed by the ambient NODE_OPTIONS if
\* any, in that order: the bootloader is preloaded ahead of every other
\* option and no prior value is lost.
C18_BootloaderPreloadedFirst ==
    envOut.defined =>
        /\ SubSeq(envOut.str, 1, Len(Preload(envIn.path))) = Preload(envIn.path)
        /\ Words(envOut.str) =
              << << RequireFlag >> >> \o Words(envIn.path)
                 \o Words(envIn.base.str) \o Words(envIn.glob.str)

\* Both environments set NODE_OPTIONS, to different values.
C18_Witness ==
    /\ envOut.defined
    /\ envIn.base = Defined(<< "--a" >>)
    /\ envIn.glob = Defined(<< "--b", Blank >>)
    /\ Len(envOut.str) > Len(Preload(envIn.path)) + 3

\* C19: the opener-chain walk made when a target is created terminates in
\* every reachable content of seenOpeners and of the live map (self- and
\* mutually referential openers and re-announced ids included): it ends at a
\* live id, at an id absent from seenOpeners, or at an undefined opener.
C19_WalkTerminates ==
    /\ ~hung
    /\ \A o \in Tids \cup {NONE} :
          LET id == LivingOpenerId(o)
          IN /\ id # LOOP
             /\ id = NONE \/ id \in DOMAIN targets \/ id \notin DOMAIN seenOpeners

-----------------------------------------------------------------------------
\* C21: the bootloader file is one memoized slot per run. A request that
\* finds the slot filled does not run getBootloaderFile and receives the
\* result the slot holds, whether that request comes from an overlapping
\* launchProgram() or from a relaunch of restart(); a request that finds it
\* empty computes a result that was never disposed of. The slot loses its
\* value only in _stopServer(), which disposes of the result it held, and
\* every teardown of an active run leaves the slot empty.
C21_BootloaderMemoized ==
    [][ /\ \A q \in ProcIds :
            (proc[q].st = "launching" /\ proc'[q].st = "env") =>
                /\ bootloaderFile # NONE => bootloaderFile' = bootloaderFile
                /\ bootloaderFile = NONE =>
                      bootloaderFile' = q /\ q \notin disposedFiles'
        /\ (bootloaderFile # NONE /\ bootloaderFile' # bootloaderFile) =>
                /\ bootloaderFile' = NONE
                /\ run' = NoRun
                /\ bootloaderFile \in disposedFiles'
        /\ (run # NoRun /\ run' = NoRun) => bootloaderFile' = NONE
        /\ disposedFiles \subseteq disposedFiles'
        /\ bootloaderFile' \notin disposedFiles' ]_vars

\* Two launchProgram() invocations asked for the bootloader file between two
\* teardowns and the second shares the result the first one computed.
C21_Witness ==
    \E q \in ProcIds :
        /\ proc[q].st = "env"
        /\ bootloaderFile \notin {NONE, q}
        /\ proc[bootloaderFile].st \in {"env", "running"}

-----------------------------------------------------------------------------
C29_NoSpaceWithoutCapability ==
    (bootOut.called /\ ~has(capTable, bootIn.version, "UseSpacesInRequirePath", Omitted)) =>
        /\ ~Includes(bootOut.interpolatedPath, Blank)
        /\ Words(NodeOptions(bootOut.interpolatedPath, Undefined, Undefined))
             = << << RequireFlag >>, bootOut.interpolatedPath >>

-----------------------------------------------------------------------------
-----------------------------------------------------------------------------
\* C25: serverConnections is exactly the set of connections the launcher
\* accepted and that are still open. A connection enters the set in the step
\* that accepts it, before its target is announced; it leaves the set in the
\* step in which it disconnects; and a step that closes connections in bulk
\* (the timeout of restart(), or _stopServer()) closes every member and
\* leaves the set empty.
C25_TrackedConnections ==
    /\ [](serverConnections = { c \in ConnIds : conn[c].open })
    /\ [][ /\ \A c \in ConnIds :
                /\ (conn[c].st = "unused" /\ conn'[c].st = "hs") =>
                      c \in serverConnections'
                /\ (conn[c].open /\ ~conn'[c].open) => c \notin serverConnections'
           /\ ((run # NoRun /\ run' = NoRun)
                 \/ \E r \in RestartIds :
                      rst[r].pc = "wait" /\ rst[r].waitOn # {} /\ rst'[r].pc # "wait") =>
                /\ serverConnections' = {}
                /\ \A c \in serverConnections : ~conn'[c].open ]_vars

\* One connection has disconnected and left the set while another, whose
\* target is not yet announced, is in it.
C25_Witness ==
    \E c, d \in ConnIds :
        /\ conn[c].st = "closed"
        /\ conn[d].st = "hs"
        /\ conn[d].open
        /\ serverConnections = {d}

-----------------------------------------------------------------------------
\* C26: overlapping restart() calls never relaunch twice at once. While one
\* restart() is suspended at its stop request or at its bounded wait, no
\* other restart() is inside launchProgram; at most one launchProgram
\* invocation is in flight; and at most one process is running.
C26_OneRelaunchAtATime ==
    /\ \A r1, r2 \in RestartIds :
          (r1 # r2 /\ rst[r1].pc \in {"stop", "wait"}) => rst[r2].pc # "prog"
    /\ Cardinality({ q \in ProcIds : proc[q].st \in {"launching", "env"} }) <= 1
    /\ Cardinality({ q \in ProcIds : proc[q].st = "running" }) <= 1

-----------------------------------------------------------------------------
\* C27: restart() never modifies the stored RunData. No step of a restart()
\* call changes this.run, and the run of a session is the one its launch()
\* stored until it is torn down. The relaunch gets the server of the run, the
\* new parameters when they resolve and a token made by restart(); a target
\* created after a restart has the parameters of the original launch; and a
\* restart whose parameters do not resolve relaunches with the parameters of
\* the original launch, whatever an earlier restart was given.
C27_RestartLeavesRunData ==
    /\ [](run \in {NoRun, [server |-> 1, params |-> 1]})
    /\ [](\A t \in DOMAIN targets : targets[t].params = 1)
    /\ [][\A r \in RestartIds :
            /\ rst'[r].pc # rst[r].pc => run' = run
            /\ (rst[r].pc \in {"idle", "wait"} /\ rst'[r].pc = "prog") =>
                  LET q == rst'[r].new
                      np == rst'[r].np
                  IN /\ proc'[q].server = run.server
                     /\ proc'[q].token.by = "restart"
                     /\ np \in {1, 2} => proc'[q].params = np
                     /\ np \notin {1, 2} => proc'[q].params = 1 ]_vars

\* After a restart with other parameters that resolved, a target attached
\* to the relaunched session, and a second restart whose parameters do not
\* resolve relaunched with the parameters of the original launch.
C27_Witness ==
    \E r \in RestartIds, t \in DOMAIN targets :
        /\ rst[r].pc = "prog"
        /\ rst[r].np = OtherParams
        /\ proc[rst[r].new].params = 1
        /\ \E q \in ProcIds : proc[q].st \in {"running", "stopping", "exited"}
                                /\ proc[q].params = 2
        /\ targets[t].params = 1

-----------------------------------------------------------------------------
\* C28: outside a restart in progress, a held process handle implies an
\* active run; whatever clears the run (terminate, onProgramTerminated,
\* dispose, a launch() over a running session) also stops or clears the
\* process handle of that run.
C28_HandleImpliesRun ==
    (\A r \in RestartIds : rst[r].pc \notin {"stop", "wait", "prog"}) =>
        (program # NONE => run # NoRun)
====
